---- MODULE Spec2Model ----
(***************************************************************************)
(* Model of the 5-day weather forecast service (src/main.py).              *)
(*                                                                         *)
(* One inbound POST /api/v1/WeatherForecastByPlacesList is followed from   *)
(* its arrival to its HTTP response: get_weather_forecast validates the    *)
(* request, then for each place awaits fetch_forecast, which issues one    *)
(* GET to the provider and reduces the returned 3-hour entries to daily    *)
(* records.                                                                *)
(*                                                                         *)
(* Units.  Python floats are modelled in fixed point: temperatures,        *)
(* precipitation and wind speed of an upstream entry are integers in       *)
(* hundredths; the rounded fields of a daily record (round(x, 1)) are      *)
(* integers in tenths; humidity is in whole percent.  A calendar date      *)
(* (date().isoformat()) is the day's ordinal since the epoch, whose        *)
(* integer order is the lexicographic order of the ISO strings.  A string  *)
(* built with an f-string is the sequence of the pieces it concatenates.   *)
(***************************************************************************)
EXTENDS Integers, Sequences, FiniteSets, TLC

VARIABLES
    places,     \* request.places
    action,     \* request.action
    pc,         \* position of the handler (or of the aggregation harness)
    i,          \* number of places whose loop iteration has completed
    results,    \* get_weather_forecast's results list
    calls,      \* every GET issued to the provider so far, in order (q=)
    inflight,   \* number of GETs awaiting the provider's answer
    response,   \* the HTTP response sent to the caller ([status |-> 0]: none yet)
    tz,         \* UTC offset (s) of the host's local timezone
    entries,    \* data["list"] of the provider's last parsed answer
    forecast,   \* fetch_forecast's forecast list for that answer
    answers     \* the provider's answer to each GET of calls, in order

vars == <<places, action, pc, i, results, calls, inflight, response, tz,
          entries, forecast, answers>>

----------------------------------------------------------------------------
(* Bounds of the model *)

MaxPlaces == 3
MaxEntries == 3
MaxDateEntries == 6

(* Program constants *)

MaxDays == 5
HTTP_OK == 200
HTTP_BAD_REQUEST == 400
SecondsPerDay == 86400

----------------------------------------------------------------------------
(* Generic helpers standing for Python built-ins *)

Range(s) == {s[k] : k \in DOMAIN s}

RECURSIVE SumSeq(_)
SumSeq(s) == IF s = <<>> THEN 0 ELSE Head(s) + SumSeq(Tail(s))

MinSeq(s) == CHOOSE x \in Range(s) : \A y \in Range(s) : x <= y

MaxSeq(s) == CHOOSE x \in Range(s) : \A y \in Range(s) : y <= x

\* sorted(S) of a set of integers
RECURSIVE Sorted(_)
Sorted(S) ==
    IF S = {} THEN <<>>
    ELSE LET m == CHOOSE x \in S : \A y \in S : x <= y
         IN  <<m>> \o Sorted(S \ {m})

\* s[:n]
Take(s, n) == SubSeq(s, 1, IF Len(s) < n THEN Len(s) ELSE n)

\* round(num / den, 0) for den > 0: to the nearest integer, a tie to the even one.
\* (Python rounds the float it holds; the inputs of the model are chosen so
\* that every tie they produce is exact in binary, as 0.25 or 72.5 are.)
RoundHalfEven(num, den) ==
    LET q == num \div den
        r == num % den
    IN  IF 2 * r < den THEN q
        ELSE IF 2 * r > den THEN q + 1
        ELSE IF q % 2 = 0 THEN q ELSE q + 1

\* round(x, 1) of a value in hundredths, in tenths
Round1(x) == RoundHalfEven(x, 10)

\* Set iteration orders of the strings involved: a set of str iterates in the
\* order of its elements' hashes, which CPython salts per process.  An order
\* lists the descriptions, then the icons (no set holds both kinds).
Descriptions == {"rain", "clouds"}
Icons == {"10d", "04d"}
Orderings(S) == {o \in [1..Cardinality(S) -> S] : Range(o) = S}
IterationOrders == {d \o c : d \in Orderings(Descriptions), c \in Orderings(Icons)}

\* basic mode builds no set: the order is not consulted
OrdersConsulted(act) ==
    IF act = "basic" THEN {CHOOSE o \in IterationOrders : TRUE} ELSE IterationOrders

----------------------------------------------------------------------------
(* fetch_forecast: the daily aggregation (src/main.py:59-97) *)

\* datetime.fromtimestamp(dt).date().isoformat()
DateOf(dt, offset) == (dt + offset) \div SecondsPerDay

\* (variant: every entry reduced into every date)
DailyDataUngrouped(list, offset, d) == list

\* daily_data[d] after the grouping loop: the entries of date d, in list order
DailyData(list, offset, d) == SelectSeq(list, LAMBDA e : DateOf(e.dt, offset) = d)

\* (variant: the slice [:5] forgotten)
RetainedDatesAll(list, offset) ==
    Sorted({DateOf(list[k].dt, offset) : k \in DOMAIN list})

\* sorted(daily_data.keys())[:5]
RetainedDates(list, offset) ==
    Take(Sorted({DateOf(list[k].dt, offset) : k \in DOMAIN list}), MaxDays)

\* e.get("rain", {}).get("3h", 0.0)
Rain3h(e) ==
    IF "rain" \in DOMAIN e
    THEN IF "3h" \in DOMAIN e.rain THEN e.rain["3h"] ELSE 0
    ELSE 0

TempMin(e) == e.main.temp_min
TempMax(e) == e.main.temp_max
MidTemp2(e) == e.main.temp_min + e.main.temp_max
Humidity(e) == e.main.humidity
WindSpeed(e) == e.wind.speed
Description(e) == e.weather[1].description
Icon(e) == e.weather[1].icon

\* max(set(values), key=values.count): the first element, in the set's
\* iteration order, whose count is the largest
MostCommon(values, order) ==
    LET S == Range(values)
        iter == SelectSeq(order, LAMBDA v : v \in S)
        count(v) == Cardinality({k \in DOMAIN values : values[k] = v})
        best == CHOOSE c \in {count(v) : v \in S} : \A v \in S : count(v) <= c
        first == CHOOSE k \in DOMAIN iter :
                    /\ count(iter[k]) = best
                    /\ \A j \in 1..(k - 1) : count(iter[j]) < best
    IN  iter[first]

BasicDailyForecast(d, es) ==
    [date |-> d,
     min_temp_c |-> Round1(MinSeq([k \in DOMAIN es |-> TempMin(es[k])])),
     max_temp_c |-> Round1(MaxSeq([k \in DOMAIN es |-> TempMax(es[k])])),
     precipitation_mm |-> Round1(SumSeq([k \in DOMAIN es |-> Rain3h(es[k])]))]

\* (variant: the precipitation averaged like humidity and wind instead of summed)
DetailedDailyForecastMeanRain(d, es, order) ==
    [date |-> d,
     min_temp_c |-> Round1(MinSeq([k \in DOMAIN es |-> TempMin(es[k])])),
     max_temp_c |-> Round1(MaxSeq([k \in DOMAIN es |-> TempMax(es[k])])),
     avg_temp_c |-> RoundHalfEven(SumSeq([k \in DOMAIN es |-> MidTemp2(es[k])]), 2 * 10 * Len(es)),
     precipitation_mm |-> RoundHalfEven(SumSeq([k \in DOMAIN es |-> Rain3h(es[k])]), 10 * Len(es)),
     humidity_percent |-> RoundHalfEven(SumSeq([k \in DOMAIN es |-> Humidity(es[k])]), Len(es)),
     wind_speed_mps |-> RoundHalfEven(SumSeq([k \in DOMAIN es |-> WindSpeed(es[k])]), 10 * Len(es)),
     weather_desc |-> MostCommon([k \in DOMAIN es |-> Description(es[k])], order),
     weather_icon |-> MostCommon([k \in DOMAIN es |-> Icon(es[k])], order)]

DetailedDailyForecast(d, es, order) ==
    [date |-> d,
     min_temp_c |-> Round1(MinSeq([k \in DOMAIN es |-> TempMin(es[k])])),
     max_temp_c |-> Round1(MaxSeq([k \in DOMAIN es |-> TempMax(es[k])])),
     avg_temp_c |-> RoundHalfEven(SumSeq([k \in DOMAIN es |-> MidTemp2(es[k])]), 2 * 10 * Len(es)),
     precipitation_mm |-> Round1(SumSeq([k \in DOMAIN es |-> Rain3h(es[k])])),
     humidity_percent |-> RoundHalfEven(SumSeq([k \in DOMAIN es |-> Humidity(es[k])]), Len(es)),
     wind_speed_mps |-> RoundHalfEven(SumSeq([k \in DOMAIN es |-> WindSpeed(es[k])]), 10 * Len(es)),
     weather_desc |-> MostCommon([k \in DOMAIN es |-> Description(es[k])], order),
     weather_icon |-> MostCommon([k \in DOMAIN es |-> Icon(es[k])], order)]

\* the body of the loop over the retained dates
DailyRecord(d, es, act, order) ==
    IF act = "basic" THEN BasicDailyForecast(d, es)
    ELSE DetailedDailyForecast(d, es, order)

\* the forecast list built from data["list"]
DailyForecast(list, act, offset, order) ==
    LET ds == RetainedDates(list, offset)
    IN  [k \in 1..Len(ds) |->
            DailyRecord(ds[k], DailyData(list, offset, ds[k]), act, order)]

\* An entry lookup the aggregation performs raises KeyError: "dt" of any entry;
\* "main" of an entry of a retained date; in detailed mode also its "wind"
\* and "weather".
RaisesKeyError(list, act, offset) ==
    IF \E k \in DOMAIN list : "dt" \notin DOMAIN list[k] THEN TRUE
    ELSE LET retained == Range(RetainedDates(list, offset))
         IN  \E k \in DOMAIN list :
            /\ DateOf(list[k].dt, offset) \in retained
            /\ \/ "main" \notin DOMAIN list[k]
               \/ /\ act # "basic"
                  /\ \/ "wind" \notin DOMAIN list[k]
                     \/ "weather" \notin DOMAIN list[k]
----------------------------------------------------------------------------
(* The provider's data: 3-hour entries and whole answers *)

\* a timestamp: hour h (UTC) of day d
At(d, h) == d * SecondsPerDay + h * 3600

\* UTC offsets of the hosts considered: UTC and UTC+05:30
TzOffsets == {0, 19800}

\* measurements of one interval: temperatures, wind speed and precipitation
\* in hundredths, humidity in percent; rain = -1 stands for no "rain" key
Samples ==
    { [temp_min |-> 1234, temp_max |-> 1380, humidity |-> 72, speed |-> 412, rain |-> -1],
      [temp_min |-> -125, temp_max |-> 275, humidity |-> 73, speed |-> 150, rain |-> 25],
      [temp_min |-> 980, temp_max |-> 980, humidity |-> 55, speed |-> 326, rain |-> 112] }

\* one element of the provider's "list"
Entry(dt, m, desc, icon) ==
    LET e == [dt |-> dt,
              main |-> [temp_min |-> m.temp_min, temp_max |-> m.temp_max,
                        humidity |-> m.humidity],
              wind |-> [speed |-> m.speed],
              weather |-> <<[description |-> desc, icon |-> icon]>>]
    IN  IF m.rain < 0 THEN e ELSE e @@ [rain |-> ("3h" :> m.rain)]

Dry == CHOOSE m \in Samples : m.rain < 0
Wet == CHOOSE m \in Samples : m.rain = 25
Flat == CHOOSE m \in Samples : m.rain = 112

\* a well-formed "list" over two or three dates
GoodList ==
    << Entry(At(0, 3), Dry, "clouds", "04d"),
       Entry(At(0, 21), Wet, "rain", "10d"),
       Entry(At(1, 3), Wet, "rain", "10d"),
       Entry(At(1, 21), Flat, "clouds", "04d") >>

\* an entry without one of its keys
Without(e, key) == [k \in DOMAIN e \ {key} |-> e[k]]

\* bodies of a 200 answer
OkBodies ==
    { [list |-> GoodList],
      [list |-> <<>>],
      [list |-> SubSeq(GoodList, 2, 2)] }

MalformedBodies ==
    { [cod |-> "200"],
      [list |-> <<Without(GoodList[1], "dt")>>],
      [list |-> <<GoodList[1], Without(GoodList[2], "main")>>],
      [list |-> <<Without(GoodList[1], "wind")>>],
      [list |-> <<Without(GoodList[1], "weather")>>] }

\* JSON bodies of an error answer
ErrorBodies ==
    { [cod |-> "404", message |-> "city not found"],
      [cod |-> "500"] }

ErrorStatuses == {404, 500}

\* An answer of the provider: its status, whether its body parses as JSON, and
\* the parsed body (or the raw text)
Answers ==
    {[status |-> HTTP_OK, json |-> TRUE, body |-> b] : b \in OkBodies \cup MalformedBodies}
    \cup {[status |-> st, json |-> TRUE, body |-> b] : st \in ErrorStatuses, b \in ErrorBodies}
    \cup {[status |-> st, json |-> FALSE, body |-> [raw |-> "<html>"]] :
            st \in ErrorStatuses \cup {HTTP_OK}}

\* what the log of answers holds for a GET that raised instead of answering
NoAnswer == [status |-> 0, json |-> FALSE, body |-> [raw |-> ""]]

PlaceNames == {"Pune", "Oslo"}

PlaceLists == UNION {[1..n -> PlaceNames] : n \in 0..MaxPlaces}

----------------------------------------------------------------------------
(* The request handler *)

Init ==
    /\ places = <<>>
    /\ action = "basic"
    /\ pc = "idle"
    /\ i = 0
    /\ results = <<>>
    /\ calls = <<>>
    /\ inflight = 0
    /\ response = [status |-> 0]
    /\ tz \in TzOffsets
    /\ entries = <<>>
    /\ forecast = <<>>
    /\ answers = <<>>

\* The framework parses the body into a PlaceListRequest; an omitted action
\* takes the default "basic".
Receive ==
    /\ pc = "idle"
    /\ \E ps \in PlaceLists, a \in {"basic", "detailed", "omitted"} :
        /\ places' = ps
        /\ action' = IF a = "omitted" THEN "basic" ELSE a
    /\ pc' = "validate"
    /\ UNCHANGED <<i, results, calls, inflight, response, tz, entries, forecast, answers>>

\* (variant: best effort, the failing place is skipped and the loop goes on)
RaiseHTTPSkip(status, detail) ==
    /\ i' = i + 1
    /\ pc' = "loop"
    /\ UNCHANGED <<results, response>>

\* raise HTTPException(status_code, detail): the request ends with that error
RaiseHTTP(status, detail) ==
    /\ response' = [status |-> status, detail |-> detail]
    /\ pc' = "done"
    /\ UNCHANGED <<i, results>>

\* an exception other than HTTPException leaves the handler: the framework
\* answers 500 with the plain text "Internal Server Error"
Unhandled ==
    /\ response' = [status |-> 500, detail |-> <<"Internal Server Error">>]
    /\ pc' = "done"
    /\ UNCHANGED <<i, results>>

\* (variant: the emptiness check left out)
ValidateUnchecked ==
    /\ pc = "validate"
    /\ results' = <<>>
    /\ pc' = "loop"
    /\ UNCHANGED <<i, response>>
    /\ UNCHANGED <<places, action, calls, inflight, tz, entries, forecast, answers>>

\* get_weather_forecast up to the loop
Validate ==
    /\ pc = "validate"
    /\ IF places = <<>>
       THEN RaiseHTTP(HTTP_BAD_REQUEST, <<"The 'places' list cannot be empty.">>)
       ELSE /\ results' = <<>>
            /\ pc' = "loop"
            /\ UNCHANGED <<i, response>>
    /\ UNCHANGED <<places, action, calls, inflight, tz, entries, forecast, answers>>

\* (variant: the GETs of all remaining places dispatched at once)
SendGetFanOut ==
    /\ pc = "loop"
    /\ i < Len(places)
    /\ calls' = calls \o SubSeq(places, i + 1, Len(places))
    /\ inflight' = inflight + (Len(places) - i)
    /\ pc' = "await"
    /\ UNCHANGED <<places, action, i, results, response, tz, entries, forecast, answers>>

\* the next iteration: fetch_forecast(place, action) up to "await client.get"
SendGet ==
    /\ pc = "loop"
    /\ i < Len(places)
    /\ calls' = Append(calls, places[i + 1])
    /\ inflight' = inflight + 1
    /\ pc' = "await"
    /\ UNCHANGED <<places, action, i, results, response, tz, entries, forecast, answers>>

\* (variant: the place name left out of the message)
ErrorDetailBare(place, body) ==
    <<IF "message" \in DOMAIN body THEN body.message ELSE "Unknown error">>

\* f"{place}: {detail}" with detail = body.get("message", "Unknown error")
ErrorDetail(place, body) ==
    <<place, ": ",
      IF "message" \in DOMAIN body THEN body.message ELSE "Unknown error">>

\* (variant: results.insert(0, forecast))
PrependResult(rs, f) == <<f>> \o rs

\* results.append(forecast)
AppendResult(rs, f) == Append(rs, f)

\* the provider answers: the rest of fetch_forecast and of the iteration
Answer ==
    /\ pc = "await"
    /\ \E a \in Answers, order \in OrdersConsulted(action) :
        /\ answers' = Append(answers, a)
        /\ IF ~a.json
           THEN Unhandled /\ UNCHANGED <<entries, forecast>>
           ELSE IF a.status # HTTP_OK
           THEN /\ RaiseHTTP(a.status, ErrorDetail(places[i + 1], a.body))
                /\ UNCHANGED <<entries, forecast>>
           ELSE IF "list" \notin DOMAIN a.body
           THEN Unhandled /\ UNCHANGED <<entries, forecast>>
           ELSE IF RaisesKeyError(a.body.list, action, tz)
           THEN Unhandled /\ entries' = a.body.list /\ UNCHANGED forecast
           ELSE /\ entries' = a.body.list
                /\ forecast' = DailyForecast(a.body.list, action, tz, order)
                /\ results' = AppendResult(results,
                                  [place |-> places[i + 1], daily_forecast |-> forecast'])
                /\ i' = i + 1
                /\ pc' = "loop"
                /\ UNCHANGED response
    /\ inflight' = inflight - 1
    /\ UNCHANGED <<places, action, calls, tz>>

\* client.get raises (no connection, timeout): nothing catches it
NetworkError ==
    /\ pc = "await"
    /\ answers' = Append(answers, NoAnswer)
    /\ inflight' = inflight - 1
    /\ Unhandled
    /\ UNCHANGED <<places, action, calls, tz, entries, forecast>>

\* return ForecastResponse(forecasts=results)
Return ==
    /\ pc = "loop"
    /\ i = Len(places)
    /\ response' = [status |-> HTTP_OK, forecasts |-> results]
    /\ pc' = "done"
    /\ UNCHANGED <<places, action, i, results, calls, inflight, tz, entries, forecast, answers>>

Next == Receive \/ Validate \/ SendGet \/ Answer \/ NetworkError \/ Return

Spec == Init /\ [][Next]_vars

----------------------------------------------------------------------------
(* The aggregation on its own: the provider composes a "list" entry by      *)
(* entry, in any order, and fetch_forecast reduces it.                      *)

InitAggregation ==
    /\ places = <<>>
    /\ action \in {"basic", "detailed"}
    /\ pc = "compose"
    /\ i = 0
    /\ results = <<>>
    /\ calls = <<>>
    /\ inflight = 0
    /\ response = [status |-> 0]
    /\ tz \in TzOffsets
    /\ entries = <<>>
    /\ forecast = <<>>
    /\ answers = <<>>

\* the provider appends one entry of the pool to the list
Compose(pool, bound) ==
    /\ pc = "compose"
    /\ Len(entries) < bound
    /\ \E e \in pool : entries' = Append(entries, e)
    /\ UNCHANGED <<places, action, pc, i, results, calls, inflight, response, tz,
                   forecast, answers>>

\* fetch_forecast from "daily_data = defaultdict(list)" to the forecast list
Aggregate ==
    /\ pc = "compose"
    /\ ~RaisesKeyError(entries, action, tz)
    /\ \E order \in OrdersConsulted(action) :
        forecast' = DailyForecast(entries, action, tz, order)
    /\ pc' = "aggregated"
    /\ UNCHANGED <<places, action, i, results, calls, inflight, response, tz,
                   entries, answers>>

\* entries late on each of MaxDays + 1 days: one date more than is retained
DatePool == {Entry(At(d, 21), Dry, "clouds", "04d") : d \in 0..MaxDays}

\* lines 59-65, which retain the dates, do not read the mode
InitDates == InitAggregation /\ action = "basic"

ComposeDates == Compose(DatePool, MaxDateEntries)

NextDates == ComposeDates \/ Aggregate

SpecDates == InitDates /\ [][NextDates]_vars

\* entries of two dates that differ in description and icon
ModePool ==
    {Entry(At(d, 9), Dry, desc, icon) : d \in {0, 1}, desc \in Descriptions, icon \in Icons}

ComposeMode == Compose(ModePool, MaxEntries)

NextMode == ComposeMode \/ Aggregate

SpecMode == InitAggregation /\ [][NextMode]_vars

\* entries early and late on two days, with each of the measurements
ReducePool ==
    {Entry(At(d, h), m, "rain", "10d") : d \in {0, 1}, h \in {3, 21}, m \in Samples}

ComposeReduce == Compose(ReducePool, MaxEntries)

NextReduce == ComposeReduce \/ Aggregate

SpecReduce == InitAggregation /\ [][NextReduce]_vars

----------------------------------------------------------------------------
(* Properties of the request handler (specification Spec) *)

LastAnswer == answers[Len(answers)]

\* the place the last GET was issued for
LastPlace == places[Len(answers)]

\* C1: when every place of a non-empty request has been fetched and aggregated,
\* the request succeeds, and a successful response holds one forecast per
\* place, the k-th one for places[k] (request order, duplicates included).
C1_ForecastsFollowPlaces ==
    /\ (pc = "done" /\ places # <<>> /\ i = Len(places)) => response.status = HTTP_OK
    /\ (pc = "done" /\ response.status = HTTP_OK) =>
          /\ Len(response.forecasts) = Len(places)
          /\ \A k \in 1..Len(places) : response.forecasts[k].place = places[k]

C1_Witness ==
    /\ pc = "done"
    /\ response.status = HTTP_OK
    /\ places = <<"Pune", "Oslo", "Pune">>
    /\ response.forecasts[1].daily_forecast # response.forecasts[2].daily_forecast

\* C3: a request whose places list is empty issues no GET and ends with status
\* 400 and exactly the message "The 'places' list cannot be empty.".
C3_EmptyPlacesRejected ==
    (pc # "idle" /\ places = <<>>) =>
        /\ calls = <<>>
        /\ inflight = 0
        /\ pc \in {"validate", "done"}
        /\ pc = "done" =>
              response = [status |-> 400,
                          detail |-> <<"The 'places' list cannot be empty.">>]

C3_Witness ==
    /\ pc = "done"
    /\ places = <<>>
    /\ response.status = 400
    /\ calls = <<>>

\* the GETs that did not come back with status 200
FailedCalls == {k \in DOMAIN answers : answers[k].status # HTTP_OK}

\* C4: once the GET of a place has failed, the request has ended in an error
\* that carries no forecasts, and the failed GET is the last one issued: no
\* place after the first failing one is ever asked for.
C4_FailFast ==
    FailedCalls # {} =>
        /\ pc = "done"
        /\ response.status # HTTP_OK
        /\ "forecasts" \notin DOMAIN response
        /\ \A k \in FailedCalls : Len(calls) = k

C4_Witness ==
    /\ pc = "done"
    /\ Len(places) = 3
    /\ Len(results) = 1
    /\ results[1].daily_forecast # <<>>
    /\ FailedCalls = {2}
    /\ answers[2].status = 404

\* C5: when the provider answers with a status other than 200 and a JSON
\* body, the request ends with that very status and the message
\* "<place>: <message of the body>", or "<place>: Unknown error" when the body
\* has no message; a 404 with message "city not found" gives 404 and a
\* message holding the place name and "city not found".
C5_UpstreamErrorMirrored ==
    (pc = "done" /\ answers # <<>> /\ LastAnswer.status # HTTP_OK /\ LastAnswer.json) =>
        /\ response.status = LastAnswer.status
        /\ Len(response.detail) = 3
        /\ response.detail[1] = LastPlace
        /\ response.detail[2] = ": "
        /\ "message" \in DOMAIN LastAnswer.body =>
              response.detail[3] = LastAnswer.body.message
        /\ "message" \notin DOMAIN LastAnswer.body =>
              response.detail[3] = "Unknown error"
        /\ (LastAnswer.status = 404 /\ LastAnswer.body = [cod |-> "404", message |-> "city not found"]) =>
              /\ response.status = 404
              /\ {LastPlace, "city not found"} \subseteq Range(response.detail)

C5_Witness ==
    /\ pc = "done"
    /\ places = <<"Oslo", "Pune">>
    /\ Len(answers) = 2
    /\ LastAnswer = [status |-> 404, json |-> TRUE,
                      body |-> [cod |-> "404", message |-> "city not found"]]
    /\ response = [status |-> 404, detail |-> <<"Pune", ": ", "city not found">>]

\* an entry lacks one of the keys the provider's schema gives it
LacksKey(e) == \E key \in {"dt", "main", "wind", "weather"} : key \notin DOMAIN e

\* the answer does not parse, or parses into something other than the schema
Unparseable(a) ==
    \/ a # NoAnswer /\ ~a.json
    \/ /\ a.json
       /\ a.status = HTTP_OK
       /\ \/ "list" \notin DOMAIN a.body
          \/ \E k \in DOMAIN a.body.list : LacksKey(a.body.list[k])

\* C8: an answer that cannot be parsed, or whose entries are malformed, makes
\* the request fail with an error whose message names the offending place.
C8_ParsingFaultNamesPlace ==
    \A k \in DOMAIN answers :
        Unparseable(answers[k]) =>
            /\ pc = "done"
            /\ response.status # HTTP_OK
            /\ places[k] \in Range(response.detail)

\* C10: the GETs issued are a prefix of places, in order, one per element and
\* one at a time: a GET is outstanding exactly while the handler awaits it,
\* every GET but the last has been answered with 200 and aggregated into
\* results, and a successful request has issued exactly places.
C10_CallsArePrefixOfPlaces ==
    /\ Len(calls) <= Len(places)
    /\ \A k \in DOMAIN calls : calls[k] = places[k]
    /\ inflight \in {0, 1}
    /\ inflight = 1 <=> pc = "await"
    /\ Len(calls) = Len(answers) + inflight
    /\ \A k \in 1..(Len(calls) - 1) :
          /\ answers[k].status = HTTP_OK
          /\ k <= Len(results)
          /\ results[k].place = calls[k]
    /\ (pc = "done" /\ response.status = HTTP_OK) => calls = places

C10_Witness ==
    /\ pc = "done"
    /\ response.status = HTTP_OK
    /\ calls = <<"Pune", "Pune", "Oslo">>
    /\ inflight = 0

----------------------------------------------------------------------------
(* Properties of the aggregation (specifications SpecDates, SpecMode and   *)
(* SpecReduce)                                                              *)

\* the distinct dates among the entries
DatesPresent == {DateOf(entries[k].dt, tz) : k \in DOMAIN entries}

ForecastDates == {forecast[k].date : k \in DOMAIN forecast}

\* C2: the forecast has min(5, number of distinct dates) records, their dates
\* strictly ascending, and they are the smallest dates present (all of them
\* when there are fewer than 5).
C2_FirstFiveDatesAscending ==
    pc = "aggregated" =>
        /\ Len(forecast) = IF Cardinality(DatesPresent) < 5
                            THEN Cardinality(DatesPresent) ELSE 5
        /\ \A k \in 1..(Len(forecast) - 1) : forecast[k].date < forecast[k + 1].date
        /\ ForecastDates \subseteq DatesPresent
        /\ \A d \in DatesPresent \ ForecastDates : \A r \in ForecastDates : r < d
        /\ Cardinality(DatesPresent) < 5 => ForecastDates = DatesPresent

C2_Witness ==
    /\ pc = "aggregated"
    /\ Cardinality(DatesPresent) = 6
    /\ Len(forecast) = 5
    /\ tz # 0
    /\ \A d \in DatesPresent : d <= DateOf(entries[1].dt, tz)
    /\ \A d \in DatesPresent : DateOf(entries[6].dt, tz) <= d
    /\ DateOf(entries[1].dt, tz) \notin ForecastDates
    /\ forecast[1].date = DateOf(entries[6].dt, tz)

\* positions of the entries of date d
EntriesOn(d) == {k \in DOMAIN entries : DateOf(entries[k].dt, tz) = d}

\* the value with the highest count among values; of several, the one whose
\* first occurrence comes first
StableMode(values) ==
    LET count(v) == Cardinality({k \in DOMAIN values : values[k] = v})
        k0 == CHOOSE k \in DOMAIN values :
                /\ \A j \in DOMAIN values : count(values[j]) <= count(values[k])
                /\ \A j \in 1..(k - 1) : count(values[j]) < count(values[k])
    IN  values[k0]

\* the descriptions (icons) of the entries of date d, in list order
DescriptionsOn(d) ==
    LET es == SelectSeq(entries, LAMBDA e : DateOf(e.dt, tz) = d)
    IN  [k \in DOMAIN es |-> es[k].weather[1].description]

IconsOn(d) ==
    LET es == SelectSeq(entries, LAMBDA e : DateOf(e.dt, tz) = d)
    IN  [k \in DOMAIN es |-> es[k].weather[1].icon]

\* C6: in detailed mode weather_desc and weather_icon of a day are the most
\* frequent value among the day's entries, the first-seen one on a tie
\* (["rain", "clouds"] gives "rain").
C6_FirstSeenWinsTie ==
    (pc = "aggregated" /\ action = "detailed") =>
        \A k \in DOMAIN forecast :
            /\ forecast[k].weather_desc = StableMode(DescriptionsOn(forecast[k].date))
            /\ forecast[k].weather_icon = StableMode(IconsOn(forecast[k].date))

OtherMode == IF action = "basic" THEN "detailed" ELSE "basic"

BasicFieldNames == {"date", "min_temp_c", "max_temp_c", "precipitation_mm"}

ExtraFieldNames ==
    {"avg_temp_c", "humidity_percent", "wind_speed_mps", "weather_desc", "weather_icon"}

\* C7: aggregating the same entries in the other mode gives as many records,
\* with the same date, min_temp_c, max_temp_c and precipitation_mm at each
\* position; a detailed record has the basic fields plus the extra ones.
C7_ModesAgreeOnBasicFields ==
    pc = "aggregated" =>
        \A order \in IterationOrders :
            LET other == DailyForecast(entries, OtherMode, tz, order)
                det == IF action = "basic" THEN other ELSE forecast
                bas == IF action = "basic" THEN forecast ELSE other
            IN  /\ Len(det) = Len(bas)
                /\ \A k \in DOMAIN bas :
                      /\ DOMAIN bas[k] = BasicFieldNames
                      /\ DOMAIN det[k] = BasicFieldNames \cup ExtraFieldNames
                      /\ \A f \in BasicFieldNames : det[k][f] = bas[k][f]

C7_Witness ==
    /\ pc = "aggregated"
    /\ action = "detailed"
    /\ Len(forecast) = 2
    /\ forecast[1].precipitation_mm > 0
    /\ forecast[1].min_temp_c < forecast[1].avg_temp_c
    /\ Cardinality(EntriesOn(forecast[1].date)) = 2

\* precipitation of the entry at position k, 0 when it has no "rain"
RainAt(k) == IF "rain" \in DOMAIN entries[k] THEN entries[k].rain["3h"] ELSE 0

RECURSIVE TotalRain(_)
TotalRain(S) ==
    IF S = {} THEN 0
    ELSE LET k == CHOOSE x \in S : TRUE IN RainAt(k) + TotalRain(S \ {k})

\* C9: each record is reduced from exactly the entries of its date: its
\* min_temp_c is their least temp_min, its max_temp_c their greatest temp_max
\* and its precipitation_mm the sum of their rain with a missing rain counted
\* as 0 (each rounded to one decimal); no entries give an empty forecast, and
\* a date with one entry gives that entry's values.
C9_RecordReducesItsOwnDate ==
    pc = "aggregated" =>
        /\ entries = <<>> => forecast = <<>>
        /\ \A k \in DOMAIN forecast :
            LET S == EntriesOn(forecast[k].date)
                r == forecast[k]
            IN  /\ S # {}
                /\ \E j \in S : r.min_temp_c = Round1(entries[j].main.temp_min)
                /\ \A j \in S : r.min_temp_c <= Round1(entries[j].main.temp_min)
                /\ \E j \in S : r.max_temp_c = Round1(entries[j].main.temp_max)
                /\ \A j \in S : r.max_temp_c >= Round1(entries[j].main.temp_max)
                /\ r.precipitation_mm = Round1(TotalRain(S))
                /\ \A j \in S :
                      S = {j} =>
                        /\ r.min_temp_c = Round1(entries[j].main.temp_min)
                        /\ r.max_temp_c = Round1(entries[j].main.temp_max)
                        /\ r.precipitation_mm = Round1(RainAt(j))

C9_Witness ==
    /\ pc = "aggregated"
    /\ Len(entries) = 3
    /\ Len(forecast) = 2
    /\ EntriesOn(forecast[1].date) = {1, 3}
    /\ "rain" \notin DOMAIN entries[1]
    /\ RainAt(3) > 0
    /\ RainAt(2) > 0
    /\ Round1(entries[2].main.temp_min) < forecast[1].min_temp_c
    /\ forecast[1].min_temp_c = Round1(entries[3].main.temp_min)
    /\ forecast[1].precipitation_mm = Round1(RainAt(3))
    /\ tz # 0

====
